---- MODULE Spec2Model ----
(***************************************************************************)
(* The GraphQL mutations of crm/schema.py (createCustomer,                 *)
(* bulkCreateCustomers, createProduct, createOrder) over a relational      *)
(* store.  Every request is a process that walks through the database      *)
(* operations of its mutate() method; the store gives each atomic block    *)
(* its own pending writes, which become visible at commit.                 *)
(***************************************************************************)
EXTENDS Integers, Sequences, FiniteSets, TLC

\* ------------------------------------------------------------- bounds
\* calls started in one behaviour of SpecOrders
MaxCalls == 4
\* calls started in one behaviour of SpecCustomers
MaxCustomerCalls == 3
\* calls started in one behaviour of SpecConcurrentCustomers
MaxConcurrentCalls == 3
\* calls started in one behaviour of SpecConcurrentOrders
MaxConcurrentOrderCalls == 4
\* SpecConcurrentOrders starts createCustomer and createProduct calls only
\* among its first calls
MaxSetupCalls == 2
\* rows of one bulkCreateCustomers input list
MaxBatch == 3
\* rows of one bulkCreateCustomers input list in SpecConcurrentCustomers
MaxConcurrentBatch == 2
\* entries of one createOrder product_ids list
MaxProductIds == 2
\* store faults (lost connection, lock timeout) injected in one behaviour
MaxFaults == 1

\* ------------------------------------------------------------- values
\* An optional value: None, or Some(v).
None == <<>>
Some(v) == <<v>>

Requests == {1, 2}
Emails == {"a@x.com", "b@x.com", "c@x.com"}

\* Phone strings, as sequences of characters.
PhonePlusTen  == <<"+","1","2","3","4","5","6","7","8","9","0">>
PhoneDashed   == <<"1","2","3","-","4","5","6","-","7","8","9","0">>
PhoneSsn      == <<"1","2","3","-","4","5","-","6","7","8","9">>
PhoneIntl     == <<"+","4","4","5","5","5","1","2","3","4","5","6">>
PhoneNewline  == <<"1","2","3","4","5","6","7","8","9","0","\n">>
PhoneEmpty    == <<>>

\* The phone argument of a CustomerInput: omitted, or a string.
PhoneInputs == {None, Some(PhoneEmpty), Some(PhonePlusTen), Some(PhoneDashed),
                Some(PhoneSsn)}
\* The rows of a bulkCreateCustomers input list.
BulkRows == [email : Emails, phone : {None}]
              \cup {[email |-> "c@x.com", phone |-> Some(PhoneSsn)]}

PriceInputs == {-5, 0, 10, 20}
StockInputs == {None, Some(-1), Some(5)}
IdInputs == 1..3

\* ------------------------------------------------ validate_phone's regex
Digits == {"0","1","2","3","4","5","6","7","8","9"}
Separators == {"-", " "}

\* \d{n}: the positions reached from a position of P by reading n digits.
DigitsN(s, P, n) ==
  {p + n : p \in {q \in P : /\ q + n - 1 <= Len(s)
                            /\ \A k \in q..(q + n - 1) : s[k] \in Digits}}

\* [- ]?: stay, or step over one separator.
OptSep(s, P) ==
  P \cup {p + 1 : p \in {q \in P : q <= Len(s) /\ s[q] \in Separators}}

\* (\+\d{1,3}[- ]?)?: position 1, or the positions after a country prefix.
OptPrefix(s) ==
  LET plus == IF Len(s) >= 1 /\ s[1] = "+" THEN {2} ELSE {}
  IN  {1} \cup OptSep(s, UNION {DigitsN(s, plus, n) : n \in 1..3})

\* $: the end of the string, or just before a final newline.
AtEnd(s, P) ==
  \E p \in P : p = Len(s) + 1 \/ (p = Len(s) /\ s[p] = "\n")

\* re.match(r'^(\+\d{1,3}[- ]?)?\d{3}[- ]?\d{3}[- ]?\d{4}$', s)
PhoneMatches(s) ==
  AtEnd(s, DigitsN(s, OptSep(s, DigitsN(s, OptSep(s,
             DigitsN(s, OptPrefix(s), 3)), 3)), 4))

\* `if phone:` is false for None and for the empty string.
Truthy(phone) == phone # None /\ phone[1] # <<>>

\* CreateCustomer.validate_phone: TRUE when it returns, FALSE when it raises.
validate_phone(phone) == Truthy(phone) => PhoneMatches(phone[1])


\* ------------------------------------------------------------ messages
\* A django ValidationError raised with one message (field = None) or by
\* full_clean for one field.
ValidationError(text) == [field |-> None, text |-> text]
FieldError(field, text) == [field |-> Some(field), text |-> text]

\* str(e) of a ValidationError: the repr of its message list (or dict).
StrValidationError(e) ==
  IF e.field = None
  THEN "['" \o e.text \o "']"
  ELSE "{'" \o e.field[1] \o "': ['" \o e.text \o "']}"

\* str(e) of a store exception: the text is the store's; its class stands for it.
IntegrityError == "IntegrityError"
TransactionManagementError == "TransactionManagementError"
OperationalError == "OperationalError"

\* ----------------------------------------------------------------- state
VARIABLES
  customers,   \* committed Customer rows
  products,    \* committed Product rows
  orders,      \* committed Order rows
  items,       \* committed OrderItem rows
  nextId,      \* the next id of each table's sequence
  req,         \* each request: its mutation, its position, its locals
  placed,      \* history: what each createOrder call supplied for its Order
  calls,       \* calls started
  faults       \* store faults injected

vars == <<customers, products, orders, items, nextId, req, placed, calls, faults>>

EmptyTx == [customers |-> {}, orders |-> {}, items |-> {}]
Snapshot == [customers |-> customers, products |-> products,
             orders |-> orders, items |-> items]

IdleReq ==
  [op |-> "idle", pc |-> "idle", input |-> None, i |-> 0,
   customers |-> <<>>, errors |-> <<>>, products |-> <<>>, total |-> 0,
   order |-> None, tx |-> EmptyTx, rb |-> FALSE, result |-> None,
   snap |-> None]

Init ==
  /\ customers = {}
  /\ products = {}
  /\ orders = {}
  /\ items = {}
  /\ nextId = [customer |-> 1, product |-> 1, order |-> 1, item |-> 1]
  /\ req = [r \in Requests |-> IdleReq]
  /\ placed = {}
  /\ calls = 0
  /\ faults = 0

\* ------------------------------------------------------------ the store
\* InAtomic with createOrder's writes outside an atomic block.
InAtomicBulkOnly(op) == op = "bulkCreateCustomers"

\* The blocks of schema.py that run inside `with transaction.atomic()`.
InAtomic(op) == op \in {"bulkCreateCustomers", "createOrder"}

\* The Customer rows request r reads: the committed ones and its own pending ones.
VisibleCustomers(r) == customers \cup req[r].tx.customers

\* Customer.objects.filter(email=email).exists()
EmailExists(r, email) == \E c \in VisibleCustomers(r) : c.email = email

\* The unique index on Customer.email refuses a row whose email is committed.
UniqueViolation(email) == \E c \in customers : c.email = email

\* Another open transaction holds an uncommitted row with this email: the
\* unique index makes the insert wait for it.
EmailPending(r, email) ==
  \E q \in Requests \ {r} : \E c \in req[q].tx.customers : c.email = email

\* Customer.full_clean(): the model's field checks pass for every input of
\* the schema's shape (phone is optional, so a blank phone is skipped), and
\* validate_unique looks the email up.  TRUE when it returns.
CustomerFullClean(r, email) == ~EmailExists(r, email)

UniqueEmailError ==
  FieldError("email", "Customer with this Email already exists.")

\* An insert inside an atomic block stays pending until the block commits;
\* outside one (autocommit) it is committed at once.
CommittedAfterInsert(r, rows, row) ==
  IF InAtomic(req[r].op) THEN rows ELSE rows \cup {row}
PendingAfterInsert(r, rows, row) ==
  IF InAtomic(req[r].op) THEN rows \cup {row} ELSE rows

Finish(r, result) == [req[r] EXCEPT !.pc = "done", !.result = result]

StartCall(r, op, input, budget) ==
  /\ req[r].pc = "idle"
  /\ calls < budget
  /\ calls' = calls + 1
  /\ req' = [req EXCEPT ![r] = [IdleReq EXCEPT !.op = op, !.pc = "start",
                                   !.input = input, !.i = 1,
                                   !.snap = Snapshot]]
  /\ UNCHANGED <<customers, products, orders, items, nextId, placed, faults>>

\* The response leaves; the request slot is free again.
Return(r) ==
  /\ req[r].pc = "done"
  /\ req' = [req EXCEPT ![r] = IdleReq]
  /\ UNCHANGED <<customers, products, orders, items, nextId, placed, calls, faults>>

\* A store fault is still within the budget.
MayFault == faults < MaxFaults

\* ------------------------------------------------------- CreateCustomer
CreateCustomerSuccess(customer) ==
  [customer |-> Some(customer), message |-> "Customer created successfully",
   success |-> TRUE]

CreateCustomerInvalid(e) ==
  [customer |-> None, message |-> StrValidationError(e), success |-> FALSE]

\* CreateCustomerError reporting success.
CreateCustomerErrorAsSuccess(detail) ==
  [customer |-> None, message |-> "Error creating customer: " \o detail,
   success |-> TRUE]

CreateCustomerError(detail) ==
  [customer |-> None, message |-> "Error creating customer: " \o detail,
   success |-> FALSE]

InvalidPhone ==
  ValidationError("Invalid phone number format. Use +1234567890 or 123-456-7890")

\* A createCustomer call arrives, its input drawn from the given sets.
CallCreateCustomer(r, emails, phones, budget) ==
  \E email \in emails, phone \in phones :
    StartCall(r, "createCustomer", [email |-> email, phone |-> phone], budget)

\* The email pre-check and validate_phone.
CcCheck(r) ==
  /\ req[r].op = "createCustomer" /\ req[r].pc = "start"
  /\ req' = [req EXCEPT ![r] =
       IF EmailExists(r, req[r].input.email)
       THEN Finish(r, CreateCustomerInvalid(ValidationError("Email already exists")))
       ELSE IF ~validate_phone(req[r].input.phone)
       THEN Finish(r, CreateCustomerInvalid(InvalidPhone))
       ELSE [req[r] EXCEPT !.pc = "clean"]]
  /\ UNCHANGED <<customers, products, orders, items, nextId, placed, calls, faults>>

\* customer.full_clean()
CcClean(r) ==
  /\ req[r].op = "createCustomer" /\ req[r].pc = "clean"
  /\ req' = [req EXCEPT ![r] =
       IF CustomerFullClean(r, req[r].input.email)
       THEN [req[r] EXCEPT !.pc = "save"]
       ELSE Finish(r, CreateCustomerInvalid(UniqueEmailError))]
  /\ UNCHANGED <<customers, products, orders, items, nextId, placed, calls, faults>>

\* customer.save() in autocommit: the row is committed, or the unique index
\* refuses it.
CcSave(r) ==
  /\ req[r].op = "createCustomer" /\ req[r].pc = "save"
  /\ ~EmailPending(r, req[r].input.email)
  /\ LET row == [id |-> nextId.customer, email |-> req[r].input.email,
                 phone |-> req[r].input.phone]
     IN  IF UniqueViolation(row.email)
         THEN /\ req' = [req EXCEPT ![r] = Finish(r, CreateCustomerError(IntegrityError))]
              /\ UNCHANGED <<customers, nextId>>
         ELSE /\ customers' = CommittedAfterInsert(r, customers, row)
              /\ nextId' = [nextId EXCEPT !.customer = @ + 1]
              /\ req' = [req EXCEPT ![r] = Finish(r, CreateCustomerSuccess(row))]
  /\ UNCHANGED <<products, orders, items, placed, calls, faults>>

\* customer.save() fails on a store fault.
CcSaveFault(r) ==
  /\ req[r].op = "createCustomer" /\ req[r].pc = "save"
  /\ MayFault
  /\ faults' = faults + 1
  /\ req' = [req EXCEPT ![r] = Finish(r, CreateCustomerError(OperationalError))]
  /\ UNCHANGED <<customers, products, orders, items, nextId, placed, calls>>


\* -------------------------------------------------- BulkCreateCustomers
BulkInputs(rows, maxlen) == UNION {[1..n -> rows] : n \in 0..maxlen}

\* BulkResult with the success flag stuck at True.
BulkResultAlwaysSuccess(customers_, errors_) ==
  [customers |-> customers_, errors |-> errors_, success |-> TRUE]

BulkResult(customers_, errors_) ==
  [customers |-> customers_, errors |-> errors_, success |-> Len(customers_) > 0]

EmailExistsMessage(email) == "Email " \o email \o " already exists"
RowInvalidMessage(email, e) ==
  "Validation error for " \o email \o ": " \o StrValidationError(e)
RowErrorMessage(email, detail) ==
  "Error creating customer " \o email \o ": " \o detail

\* RowFailed without errors.append: the row is skipped silently.
RowFailedSilently(r, message) ==
  [req[r] EXCEPT !.i = @ + 1, !.pc = "start"]

\* The row failed: its error string is appended and the loop moves on.
RowFailed(r, message) ==
  [req[r] EXCEPT !.errors = Append(@, message), !.i = @ + 1, !.pc = "start"]

\* A bulkCreateCustomers call arrives with a list of at most maxlen rows.
CallBulkCreateCustomers(r, rows, maxlen, budget) ==
  \E inputs \in BulkInputs(rows, maxlen) :
    StartCall(r, "bulkCreateCustomers", inputs, budget)

\* One row: the email pre-check and validate_phone.  A query in a transaction
\* that is marked for rollback raises TransactionManagementError.
BulkCheck(r) ==
  /\ req[r].op = "bulkCreateCustomers" /\ req[r].pc = "start"
  /\ req[r].i <= Len(req[r].input)
  /\ LET row == req[r].input[req[r].i]
     IN  req' = [req EXCEPT ![r] =
           IF req[r].rb
           THEN RowFailed(r, RowErrorMessage(row.email, TransactionManagementError))
           ELSE IF EmailExists(r, row.email)
           THEN RowFailed(r, EmailExistsMessage(row.email))
           ELSE IF ~validate_phone(row.phone)
           THEN RowFailed(r, RowInvalidMessage(row.email, InvalidPhone))
           ELSE [req[r] EXCEPT !.pc = "clean"]]
  /\ UNCHANGED <<customers, products, orders, items, nextId, placed, calls, faults>>

\* customer.full_clean() of the row
BulkClean(r) ==
  /\ req[r].op = "bulkCreateCustomers" /\ req[r].pc = "clean"
  /\ LET row == req[r].input[req[r].i]
     IN  req' = [req EXCEPT ![r] =
           IF CustomerFullClean(r, row.email)
           THEN [req[r] EXCEPT !.pc = "save"]
           ELSE RowFailed(r, RowInvalidMessage(row.email, UniqueEmailError))]
  /\ UNCHANGED <<customers, products, orders, items, nextId, placed, calls, faults>>

\* save() raised inside the atomic block: Model.save marks the transaction
\* for rollback before the exception reaches the row's except clause.
RowSaveRaised(r, detail) ==
  [RowFailed(r, RowErrorMessage(req[r].input[req[r].i].email, detail))
     EXCEPT !.rb = InAtomic(req[r].op)]

\* customer.save() of the row, and customers.append(customer)
BulkSave(r) ==
  /\ req[r].op = "bulkCreateCustomers" /\ req[r].pc = "save"
  /\ ~EmailPending(r, req[r].input[req[r].i].email)
  /\ LET in == req[r].input[req[r].i]
         row == [id |-> nextId.customer, email |-> in.email, phone |-> in.phone]
     IN  IF UniqueViolation(row.email)
         THEN /\ req' = [req EXCEPT ![r] = RowSaveRaised(r, IntegrityError)]
              /\ UNCHANGED <<customers, nextId>>
         ELSE /\ customers' = CommittedAfterInsert(r, customers, row)
              /\ nextId' = [nextId EXCEPT !.customer = @ + 1]
              /\ req' = [req EXCEPT ![r] =
                   [req[r] EXCEPT !.tx.customers = PendingAfterInsert(r, @, row),
                                  !.customers = Append(@, row),
                                  !.i = @ + 1, !.pc = "start"]]
  /\ UNCHANGED <<products, orders, items, placed, calls, faults>>

\* customer.save() of the row fails on a store fault.
BulkSaveFault(r) ==
  /\ req[r].op = "bulkCreateCustomers" /\ req[r].pc = "save"
  /\ MayFault
  /\ faults' = faults + 1
  /\ req' = [req EXCEPT ![r] = RowSaveRaised(r, OperationalError)]
  /\ UNCHANGED <<customers, products, orders, items, nextId, placed, calls>>

\* The atomic block ends without an exception: it commits, unless the
\* transaction was marked for rollback; then the mutation returns.
BulkExit(r) ==
  /\ req[r].op = "bulkCreateCustomers" /\ req[r].pc = "start"
  /\ req[r].i > Len(req[r].input)
  /\ customers' = IF req[r].rb THEN customers ELSE customers \cup req[r].tx.customers
  /\ req' = [req EXCEPT ![r] =
       [Finish(r, BulkResult(req[r].customers, req[r].errors)) EXCEPT !.tx = EmptyTx]]
  /\ UNCHANGED <<products, orders, items, nextId, placed, calls, faults>>

\* -------------------------------------------------------- CreateProduct
CreateProductSuccess(product) ==
  [product |-> Some(product), message |-> "Product created successfully",
   success |-> TRUE]

CreateProductInvalid(e) ==
  [product |-> None, message |-> StrValidationError(e), success |-> FALSE]

CreateProductError(detail) ==
  [product |-> None, message |-> "Error creating product: " \o detail,
   success |-> FALSE]

\* stock = input.stock if input.stock is not None else 0
StockOrDefault(stock) == IF stock # None THEN stock[1] ELSE 0

\* ProductInvalid with `price < 0` for `price <= 0`.
ProductInvalidOffByOne(input) ==
  IF input.price < 0
  THEN Some(ValidationError("Price must be positive"))
  ELSE IF StockOrDefault(input.stock) < 0
  THEN Some(ValidationError("Stock cannot be negative"))
  ELSE None

\* The checks before product.save(): None when they pass, else the error.
ProductInvalid(input) ==
  IF input.price <= 0
  THEN Some(ValidationError("Price must be positive"))
  ELSE IF StockOrDefault(input.stock) < 0
  THEN Some(ValidationError("Stock cannot be negative"))
  ELSE None

\* A createProduct call arrives.
CallCreateProduct(r, prices, stocks, budget) ==
  \E price \in prices, stock \in stocks :
    StartCall(r, "createProduct", [price |-> price, stock |-> stock], budget)

\* The price and stock checks, full_clean (which passes for a product that
\* passed both checks) and product.save().
CpRun(r) ==
  /\ req[r].op = "createProduct" /\ req[r].pc = "start"
  /\ LET input == req[r].input
         row == [id |-> nextId.product, price |-> input.price,
                 stock |-> StockOrDefault(input.stock)]
     IN  IF ProductInvalid(input) # None
         THEN /\ req' = [req EXCEPT ![r] =
                   Finish(r, CreateProductInvalid(ProductInvalid(input)[1]))]
              /\ UNCHANGED <<products, nextId>>
         ELSE /\ products' = CommittedAfterInsert(r, products, row)
              /\ nextId' = [nextId EXCEPT !.product = @ + 1]
              /\ req' = [req EXCEPT ![r] = Finish(r, CreateProductSuccess(row))]
  /\ UNCHANGED <<customers, orders, items, placed, calls, faults>>

\* product.save() fails on a store fault.
CpSaveFault(r) ==
  /\ req[r].op = "createProduct" /\ req[r].pc = "start"
  /\ ProductInvalid(req[r].input) = None
  /\ MayFault
  /\ faults' = faults + 1
  /\ req' = [req EXCEPT ![r] = Finish(r, CreateProductError(OperationalError))]
  /\ UNCHANGED <<customers, products, orders, items, nextId, placed, calls>>


\* ---------------------------------------------------------- CreateOrder
CreateOrderSuccess(order) ==
  [order |-> Some(order), message |-> "Order created successfully",
   success |-> TRUE]

CreateOrderInvalid(e) ==
  [order |-> None, message |-> StrValidationError(e), success |-> FALSE]

CreateOrderError(detail) ==
  [order |-> None, message |-> "Error creating order: " \o detail,
   success |-> FALSE]

CustomerDoesNotExist == ValidationError("Customer does not exist")
ProductDoesNotExist(product_id) ==
  ValidationError("Product with ID " \o ToString(product_id) \o " does not exist")
NoProducts == ValidationError("At least one product is required")

ProductIdLists == UNION {[1..n -> IdInputs] : n \in 0..MaxProductIds}

\* A createOrder call arrives.
CallCreateOrder(r, customer_ids, lists, budget) ==
  \E customer_id \in customer_ids, product_ids \in lists :
    StartCall(r, "createOrder",
              [customer_id |-> customer_id, product_ids |-> product_ids], budget)

\* Customer.objects.get(id=input.customer_id); products = []; total_amount = 0
CoCustomer(r) ==
  /\ req[r].op = "createOrder" /\ req[r].pc = "start"
  /\ req' = [req EXCEPT ![r] =
       IF \E c \in customers : c.id = req[r].input.customer_id
       THEN [req[r] EXCEPT !.pc = "products", !.i = 1, !.products = <<>>,
                           !.total = 0]
       ELSE Finish(r, CreateOrderInvalid(CustomerDoesNotExist))]
  /\ UNCHANGED <<customers, products, orders, items, nextId, placed, calls, faults>>

\* One turn of the lookup loop: Product.objects.get(id=product_id)
CoProduct(r) ==
  /\ req[r].op = "createOrder" /\ req[r].pc = "products"
  /\ req[r].i <= Len(req[r].input.product_ids)
  /\ LET product_id == req[r].input.product_ids[req[r].i]
         found == {p \in products : p.id = product_id}
     IN  req' = [req EXCEPT ![r] =
           IF found # {}
           THEN LET product == CHOOSE p \in found : TRUE
                IN  [req[r] EXCEPT !.products = Append(@, product),
                                   !.total = @ + product.price,
                                   !.i = @ + 1]
           ELSE Finish(r, CreateOrderInvalid(ProductDoesNotExist(product_id)))]
  /\ UNCHANGED <<customers, products, orders, items, nextId, placed, calls, faults>>

\* CoAtLeastOne without the `if not products` check.
CoAtLeastOneSkip(r) ==
  /\ req[r].op = "createOrder" /\ req[r].pc = "products"
  /\ req[r].i > Len(req[r].input.product_ids)
  /\ req' = [req EXCEPT ![r] = [req[r] EXCEPT !.pc = "order"]]
  /\ UNCHANGED <<customers, products, orders, items, nextId, placed, calls, faults>>

\* After the loop: `if not products`
CoAtLeastOne(r) ==
  /\ req[r].op = "createOrder" /\ req[r].pc = "products"
  /\ req[r].i > Len(req[r].input.product_ids)
  /\ req' = [req EXCEPT ![r] =
       IF req[r].products = <<>>
       THEN Finish(r, CreateOrderInvalid(NoProducts))
       ELSE [req[r] EXCEPT !.pc = "order"]]
  /\ UNCHANGED <<customers, products, orders, items, nextId, placed, calls, faults>>

\* The atomic block opens; order.save()
CoOrderSave(r) ==
  /\ req[r].op = "createOrder" /\ req[r].pc = "order"
  /\ LET row == [id |-> nextId.order, customer |-> req[r].input.customer_id,
                 total_amount |-> req[r].total]
     IN  /\ orders' = CommittedAfterInsert(r, orders, row)
         /\ nextId' = [nextId EXCEPT !.order = @ + 1]
         /\ placed' = placed \cup
              {[order |-> row.id, product_ids |-> req[r].input.product_ids,
                prices |-> [k \in DOMAIN req[r].products |-> req[r].products[k].price]]}
         /\ req' = [req EXCEPT ![r] =
              [req[r] EXCEPT !.tx.orders = PendingAfterInsert(r, @, row),
                             !.order = Some(row), !.i = 1, !.pc = "items"]]
  /\ UNCHANGED <<customers, products, items, calls, faults>>

\* NewOrderItem with the quantity taken for the unit price.
NewOrderItemQuantityAsPrice(id, order, product) ==
  [id |-> id, order |-> order.id, product |-> product.id, quantity |-> 1,
   unit_price |-> 1]

\* OrderItem(order=order, product=product, quantity=1, unit_price=product.price)
NewOrderItem(id, order, product) ==
  [id |-> id, order |-> order.id, product |-> product.id, quantity |-> 1,
   unit_price |-> product.price]

\* One turn of the item loop: OrderItem.objects.create(...)
CoItem(r) ==
  /\ req[r].op = "createOrder" /\ req[r].pc = "items"
  /\ req[r].i <= Len(req[r].products)
  /\ LET product == req[r].products[req[r].i]
         row == NewOrderItem(nextId.item, req[r].order[1], product)
     IN  /\ items' = CommittedAfterInsert(r, items, row)
         /\ nextId' = [nextId EXCEPT !.item = @ + 1]
         /\ req' = [req EXCEPT ![r] =
              [req[r] EXCEPT !.tx.items = PendingAfterInsert(r, @, row),
                             !.i = @ + 1]]
  /\ UNCHANGED <<customers, products, orders, placed, calls, faults>>

\* The atomic block ends: its rows are committed together; return.
CoCommit(r) ==
  /\ req[r].op = "createOrder" /\ req[r].pc = "items"
  /\ req[r].i > Len(req[r].products)
  /\ orders' = orders \cup req[r].tx.orders
  /\ items' = items \cup req[r].tx.items
  /\ req' = [req EXCEPT ![r] =
       [Finish(r, CreateOrderSuccess(req[r].order[1])) EXCEPT !.tx = EmptyTx]]
  /\ UNCHANGED <<customers, products, nextId, placed, calls, faults>>

\* A store fault while inserting the Order or an OrderItem, or at commit: the
\* exception leaves the atomic block, which rolls its pending rows back, and
\* is caught by `except Exception`.
CoFault(r) ==
  /\ req[r].op = "createOrder" /\ req[r].pc \in {"order", "items"}
  /\ MayFault
  /\ faults' = faults + 1
  /\ req' = [req EXCEPT ![r] =
       [Finish(r, CreateOrderError(OperationalError)) EXCEPT !.tx = EmptyTx]]
  /\ UNCHANGED <<customers, products, orders, items, nextId, placed, calls>>

\* ------------------------------------------------------- specifications
\* Customer mutations, one request at a time, on a store without faults.
NextCustomers ==
  \/ CallCreateCustomer(1, Emails, PhoneInputs, MaxCustomerCalls)
  \/ CcCheck(1)
  \/ CcClean(1)
  \/ CcSave(1)
  \/ CallBulkCreateCustomers(1, BulkRows, MaxBatch, MaxCustomerCalls)
  \/ BulkCheck(1)
  \/ BulkClean(1)
  \/ BulkSave(1)
  \/ BulkExit(1)
  \/ Return(1)

SpecCustomers == Init /\ [][NextCustomers]_vars

\* Product and order mutations (and the customer they need), one request at
\* a time, on a store without faults.
NextOrders ==
  \/ CallCreateCustomer(1, {"a@x.com"}, {None}, MaxCalls)
  \/ CcCheck(1)
  \/ CcClean(1)
  \/ CcSave(1)
  \/ CallCreateProduct(1, PriceInputs, StockInputs, MaxCalls)
  \/ CpRun(1)
  \/ CallCreateOrder(1, IdInputs, ProductIdLists, MaxCalls)
  \/ CoCustomer(1)
  \/ CoProduct(1)
  \/ CoAtLeastOne(1)
  \/ CoOrderSave(1)
  \/ CoItem(1)
  \/ CoCommit(1)
  \/ Return(1)

SpecOrders == Init /\ [][NextOrders]_vars

\* Customer mutations of concurrent requests, on a store that may fault.
ConcurrentRows == [email : {"a@x.com", "b@x.com"}, phone : {None}]

NextConcurrentCustomers ==
  \E r \in Requests :
    \/ CallCreateCustomer(r, {"a@x.com", "b@x.com"}, {None}, MaxConcurrentCalls)
    \/ CcCheck(r)
    \/ CcClean(r)
    \/ CcSave(r)
    \/ CcSaveFault(r)
    \/ CallBulkCreateCustomers(r, ConcurrentRows, MaxConcurrentBatch,
                               MaxConcurrentCalls)
    \/ BulkCheck(r)
    \/ BulkClean(r)
    \/ BulkSave(r)
    \/ BulkSaveFault(r)
    \/ BulkExit(r)
    \/ Return(r)

SpecConcurrentCustomers == Init /\ [][NextConcurrentCustomers]_vars

\* Order mutations of concurrent requests, on a store that may fault.
ConcurrentProductIdLists == {<<>>, <<1>>, <<2>>, <<1, 1>>, <<1, 2>>}

NextConcurrentOrders ==
  \E r \in Requests :
    \/ CallCreateCustomer(r, {"a@x.com"}, {None}, MaxSetupCalls)
    \/ CcCheck(r)
    \/ CcClean(r)
    \/ CcSave(r)
    \/ CallCreateProduct(r, {10, 20}, {None}, MaxSetupCalls)
    \/ CpRun(r)
    \/ CpSaveFault(r)
    \/ CallCreateOrder(r, {1}, ConcurrentProductIdLists, MaxConcurrentOrderCalls)
    \/ CoCustomer(r)
    \/ CoProduct(r)
    \/ CoAtLeastOne(r)
    \/ CoOrderSave(r)
    \/ CoItem(r)
    \/ CoCommit(r)
    \/ CoFault(r)
    \/ Return(r)

SpecConcurrentOrders == Init /\ [][NextConcurrentOrders]_vars


\* ================================================================ claims
Range(seq) == {seq[k] : k \in DOMAIN seq}
Done(r, op) == req[r].op = op /\ req[r].pc = "done"
SnapEmails(r) == {c.email : c \in req[r].snap.customers}
EmailAlreadyExists == StrValidationError(ValidationError("Email already exists"))

\* The rows of a finished batch with email e, the first of them that passes
\* validate_phone, and the error strings that report e as existing.
RowsWith(r, e) == {k \in DOMAIN req[r].input : req[r].input[k].email = e}
ValidRowsWith(r, e) == {k \in RowsWith(r, e) : validate_phone(req[r].input[k].phone)}
ExistsErrors(r, e) ==
  {k \in DOMAIN req[r].result.errors : req[r].result.errors[k] = EmailExistsMessage(e)}
CreatedWith(r, e) ==
  {k \in DOMAIN req[r].result.customers : req[r].result.customers[k].email = e}

\* The rows of a batch that meet their email already stored: every row with e
\* when e was stored before the call, else the rows after the first valid one.
DuplicateRows(r, e) ==
  IF e \in SnapEmails(r) THEN RowsWith(r, e)
  ELSE IF ValidRowsWith(r, e) = {} THEN {}
  ELSE LET first == CHOOSE k \in ValidRowsWith(r, e) :
                      \A j \in ValidRowsWith(r, e) : k <= j
       IN  {k \in RowsWith(r, e) : k > first}

\* C1: in sequential runs of createCustomer and bulkCreateCustomers no two
\* persisted customers share an email; a createCustomer call whose email is
\* already stored returns customer=null, success=false and the "Email already
\* exists" message and leaves the customers unchanged; every row of a batch
\* whose email is already stored (before the call, or by an earlier row of the
\* batch) yields the error string "Email <e> already exists" and no customer,
\* and the batch persists nothing but the customers it returns.
C1_UniqueEmail ==
  /\ \A c1, c2 \in customers : c1.email = c2.email => c1 = c2
  /\ (Done(1, "createCustomer") /\ req[1].input.email \in SnapEmails(1)) =>
       /\ req[1].result.success = FALSE
       /\ req[1].result.customer = None
       /\ req[1].result.message = EmailAlreadyExists
       /\ customers = req[1].snap.customers
  /\ Done(1, "bulkCreateCustomers") =>
       /\ \A e \in Emails :
            /\ Cardinality(ExistsErrors(1, e)) = Cardinality(DuplicateRows(1, e))
            /\ Cardinality(CreatedWith(1, e)) <= 1
            /\ e \in SnapEmails(1) => CreatedWith(1, e) = {}
       /\ customers = req[1].snap.customers \cup Range(req[1].result.customers)

\* C1's case: a batch finished in which a row repeated the email of an earlier
\* row of the same batch, and another row repeated a stored email.
C1_Witness ==
  /\ Done(1, "bulkCreateCustomers")
  /\ \E e \in Emails \ SnapEmails(1) : DuplicateRows(1, e) # {}
  /\ \E e \in SnapEmails(1) : RowsWith(1, e) # {}

\* What bulkCreateCustomers is to return for its rows from the k-th on, given
\* the emails stored so far: the created rows (email and phone) and the errors.
RECURSIVE BulkExpected(_, _, _)
BulkExpected(inputs, k, emails) ==
  IF k > Len(inputs) THEN [created |-> <<>>, errors |-> <<>>]
  ELSE LET row == inputs[k]
       IN  IF row.email \in emails
           THEN LET rest == BulkExpected(inputs, k + 1, emails)
                IN  [rest EXCEPT !.errors = <<EmailExistsMessage(row.email)>> \o @]
           ELSE IF ~(row.phone = None \/ PhoneMatches(row.phone[1]))
           THEN LET rest == BulkExpected(inputs, k + 1, emails)
                IN  [rest EXCEPT !.errors =
                       <<RowInvalidMessage(row.email, InvalidPhone)>> \o @]
           ELSE LET rest == BulkExpected(inputs, k + 1, emails \cup {row.email})
                IN  [rest EXCEPT !.created = <<row>> \o @]

\* C5: a finished bulkCreateCustomers call returns as customers exactly the
\* rows that passed validation (fresh email, well-formed or omitted phone), in
\* input order, and as errors one string per failed row, in the input order
\* of the failed rows; success is true iff a customer was created (returned
\* and persisted); the empty list gives no customers, no errors, success=false.
C5_BulkResult ==
  Done(1, "bulkCreateCustomers") =>
    LET expected == BulkExpected(req[1].input, 1, SnapEmails(1))
        result == req[1].result
    IN  /\ Len(result.customers) = Len(expected.created)
        /\ \A k \in DOMAIN result.customers :
             /\ result.customers[k].email = expected.created[k].email
             /\ result.customers[k].phone = expected.created[k].phone
        /\ result.errors = expected.errors
        /\ Len(result.customers) + Len(result.errors) = Len(req[1].input)
        /\ result.success = (Len(result.customers) > 0)
        /\ result.success = (customers # req[1].snap.customers)
        /\ customers \ req[1].snap.customers = Range(result.customers)
        /\ req[1].input = <<>> =>
             result = [customers |-> <<>>, errors |-> <<>>, success |-> FALSE]

\* C5's example: three inputs of which only the second repeats a stored
\* email: two customers, one error, success.
C5_Witness ==
  /\ Done(1, "bulkCreateCustomers")
  /\ Len(req[1].input) = 3
  /\ req[1].input[2].email \in SnapEmails(1)
  /\ Len(req[1].result.customers) = 2
  /\ req[1].result.errors = <<EmailExistsMessage(req[1].input[2].email)>>
  /\ req[1].result.success

\* C7: createCustomer with a fresh email fails and persists nothing for every
\* supplied phone string that does not match the pattern (the empty string
\* included), succeeds for an omitted phone and for every string that matches,
\* succeeds for +1234567890 and 123-456-7890, and fails for 123-45-6789.
C7_PhonePattern ==
  (Done(1, "createCustomer") /\ req[1].input.email \notin SnapEmails(1)) =>
    LET phone == req[1].input.phone
        failed == /\ ~req[1].result.success
                  /\ req[1].result.customer = None
                  /\ customers = req[1].snap.customers
    IN  /\ (phone # None /\ ~PhoneMatches(phone[1])) => failed
        /\ (phone = None \/ PhoneMatches(phone[1])) => req[1].result.success
        /\ phone \in {Some(PhonePlusTen), Some(PhoneDashed)} => req[1].result.success
        /\ phone = Some(PhoneSsn) => failed


\* ---------------------------------------------------------------- orders
ItemsOf(order_id) == {i \in items : i.order = order_id}
Occurrences(seq, x) == Cardinality({k \in DOMAIN seq : seq[k] = x})

RECURSIVE SumUnitPrices(_)
SumUnitPrices(S) ==
  IF S = {} THEN 0
  ELSE LET i == CHOOSE x \in S : TRUE
       IN  i.unit_price + SumUnitPrices(S \ {i})

\* C2: every persisted Order has one OrderItem per entry of the product_ids
\* list its call supplied (at least one; two for a repeated id), each with
\* quantity 1 and the unit price the call read for its product (the product's
\* price), and its total_amount is the sum of the unit prices of its items.
C2_OrderItems ==
  \A o \in orders :
    /\ Cardinality({p \in placed : p.order = o.id}) = 1
    /\ \A p \in placed : p.order = o.id =>
         /\ Cardinality(ItemsOf(o.id)) = Len(p.product_ids)
         /\ Len(p.product_ids) >= 1
         /\ \A i \in ItemsOf(o.id) :
              /\ i.quantity = 1
              /\ Cardinality({j \in ItemsOf(o.id) : j.product = i.product})
                   = Occurrences(p.product_ids, i.product)
              /\ \A k \in DOMAIN p.product_ids :
                   p.product_ids[k] = i.product => i.unit_price = p.prices[k]
              /\ \E q \in products : q.id = i.product /\ q.price = i.unit_price
         /\ o.total_amount = SumUnitPrices(ItemsOf(o.id))

\* C2's case: a call with two product ids of prices 10 and 20 returned its
\* order, of total 30, with two items.
C2_Witness ==
  /\ Done(1, "createOrder")
  /\ req[1].result.success
  /\ req[1].result.order[1] \in orders
  /\ req[1].result.order[1].total_amount = 30
  /\ Cardinality(ItemsOf(req[1].result.order[1].id)) = 2
  /\ {i.unit_price : i \in ItemsOf(req[1].result.order[1].id)} = {10, 20}

SnapCustomerIds(r) == {c.id : c \in req[r].snap.customers}
SnapProductIds(r) == {p.id : p \in req[r].snap.products}

\* C3: createOrder with a customer_id that resolves to no customer returns
\* order=null, success=false and the message "Customer does not exist",
\* whatever the product_ids are, and leaves the Order and OrderItem rows
\* unchanged.
C3_MissingCustomer ==
  (Done(1, "createOrder") /\ req[1].input.customer_id \notin SnapCustomerIds(1)) =>
    /\ req[1].result.order = None
    /\ req[1].result.success = FALSE
    /\ req[1].result.message = "Customer does not exist"
    /\ orders = req[1].snap.orders
    /\ items = req[1].snap.items

\* C3 apart from the text of the message: the call returns the envelope built
\* from that ValidationError, whose message is str(e), and writes nothing.
C3_FailureEnvelope ==
  (Done(1, "createOrder") /\ req[1].input.customer_id \notin SnapCustomerIds(1)) =>
    /\ req[1].result = CreateOrderInvalid(CustomerDoesNotExist)
    /\ req[1].result.message = "['Customer does not exist']"
    /\ orders = req[1].snap.orders
    /\ items = req[1].snap.items

\* C6: createProduct returns product=null, success=false and persists nothing
\* when price <= 0 or stock < 0; otherwise it persists and returns the product
\* with the given price and the given stock, 0 when the stock is omitted;
\* every persisted Product has price > 0 and stock >= 0.
C6_ProductChecks ==
  /\ \A p \in products : p.price > 0 /\ p.stock >= 0
  /\ Done(1, "createProduct") =>
       LET input == req[1].input
           result == req[1].result
       IN  IF input.price <= 0 \/ (input.stock # None /\ input.stock[1] < 0)
           THEN /\ result.product = None
                /\ result.success = FALSE
                /\ products = req[1].snap.products
           ELSE /\ result.success = TRUE
                /\ result.product # None
                /\ result.product[1].price = input.price
                /\ result.product[1].stock =
                     (IF input.stock = None THEN 0 ELSE input.stock[1])
                /\ products = req[1].snap.products \cup {result.product[1]}

\* C6's case: a call with the stock omitted persisted its product with stock
\* 0, after an earlier call that failed and persisted nothing.
C6_Witness ==
  /\ Done(1, "createProduct")
  /\ req[1].input.stock = None
  /\ req[1].result.success
  /\ req[1].result.product[1].stock = 0
  /\ req[1].result.product[1] \in products
  /\ calls = 2 /\ customers = {} /\ Cardinality(products) = 1

AtLeastOneRequired == StrValidationError(NoProducts)

\* C8 as stated: no createOrder call returns the "At least one product is
\* required" message.
C8_Unreachable ==
  Done(1, "createOrder") => req[1].result.message # AtLeastOneRequired

\* The ids of a product_ids list that were not stored when the call began.
MissingAt(r) ==
  {k \in DOMAIN req[r].input.product_ids :
     req[r].input.product_ids[k] \notin SnapProductIds(r)}

\* C8 amended: createOrder returns the "At least one product is required"
\* message exactly when the customer exists and product_ids is the empty
\* list; a call with an existing customer and a list that holds a missing id
\* fails at the lookup, naming the first missing id in input order.
C8_EmptyListOnly ==
  Done(1, "createOrder") =>
    /\ (req[1].result.message = AtLeastOneRequired) <=>
         (/\ req[1].input.customer_id \in SnapCustomerIds(1)
          /\ req[1].input.product_ids = <<>>)
    /\ (req[1].input.customer_id \in SnapCustomerIds(1) /\ MissingAt(1) # {}) =>
         LET first == CHOOSE k \in MissingAt(1) : \A j \in MissingAt(1) : k <= j
         IN  req[1].result =
               CreateOrderInvalid(ProductDoesNotExist(req[1].input.product_ids[first]))

\* C8's case: the check fired for an empty list.
C8_Witness ==
  /\ Done(1, "createOrder")
  /\ req[1].input.product_ids = <<>>
  /\ req[1].result = CreateOrderInvalid(NoProducts)


\* ----------------------------------------------------------- concurrency
\* C4: the writes of a createOrder call are all-or-nothing.  In every state,
\* under every interleaving, each committed Order has as many committed
\* OrderItems as its call supplied product ids, and no committed OrderItem
\* lacks its Order; a call that failed (in validation, or on a store fault
\* while inserting the Order or an OrderItem) returned order=null,
\* success=false, and no Order or OrderItem row of it is persisted.
C4_OrderAllOrNothing ==
  /\ \A o \in orders : \A p \in placed :
       p.order = o.id => Cardinality(ItemsOf(o.id)) = Len(p.product_ids)
  /\ \A i \in items : \E o \in orders : o.id = i.order
  /\ \A r \in Requests :
       (Done(r, "createOrder") /\ ~req[r].result.success) =>
         /\ req[r].result.order = None
         /\ req[r].order # None =>
              /\ req[r].order[1] \notin orders
              /\ ItemsOf(req[r].order[1].id) = {}

\* C4's case: a call failed on a store fault after it had inserted its Order
\* and an OrderItem, while the other request was inside createOrder too.
C4_Witness ==
  \E r \in Requests :
    /\ Done(r, "createOrder")
    /\ ~req[r].result.success
    /\ req[r].order # None
    /\ req[r].i >= 2
    /\ \E q \in Requests \ {r} :
         req[q].op = "createOrder" /\ req[q].pc \in {"items", "done"}

\* C9: whatever the interleaving of createCustomer calls, no two persisted
\* customers share an email; a call that returns success returns a persisted
\* customer with its email, a call that fails returns customer=null and
\* success=false, and of two calls with the same email at most one succeeds.
C9_ConcurrentCreate ==
  /\ \A c1, c2 \in customers : c1.email = c2.email => c1 = c2
  /\ \A r \in Requests : Done(r, "createCustomer") =>
       IF req[r].result.success
       THEN /\ req[r].result.customer # None
            /\ req[r].result.customer[1] \in customers
            /\ req[r].result.customer[1].email = req[r].input.email
       ELSE req[r].result.customer = None
  /\ \A r, q \in Requests :
       (/\ r # q
        /\ Done(r, "createCustomer") /\ Done(q, "createCustomer")
        /\ req[r].input.email = req[q].input.email)
       => ~(req[r].result.success /\ req[q].result.success)

\* C9's case: two calls with the same email both passed the pre-check; one
\* persisted its customer and the other failed at save on the unique index.
C9_Witness ==
  \E r, q \in Requests :
    /\ r # q
    /\ Done(r, "createCustomer") /\ Done(q, "createCustomer")
    /\ req[r].input.email = req[q].input.email
    /\ req[r].result.success
    /\ req[q].result = CreateCustomerError(IntegrityError)

\* C10: once a bulkCreateCustomers call has returned, every customer of its
\* returned list is a committed row, whatever rows of the batch failed; and
\* the rows a call holds pending (those it commits) are the rows of its list.
\* Stated for the runs without an injected fault, where the only error save
\* can raise is the unique index's.
C10_ReturnedAreCommitted ==
  \A r \in Requests :
    /\ (Done(r, "bulkCreateCustomers") /\ faults = 0) =>
         Range(req[r].result.customers) \subseteq customers
    /\ (req[r].op = "bulkCreateCustomers" /\ req[r].pc # "done") =>
         req[r].tx.customers = Range(req[r].customers)

====
